---- MODULE Spec2Model ----
(***************************************************************************)
(* DroneToolsManager (src/drone/drone_tools.py): the connection guard, the *)
(* flight commands, mission execution, the emergency stop and the status   *)
(* log, as a state machine.  The DroneController behind self.controller is *)
(* an external collaborator: each of its primitives returns true, returns  *)
(* false or raises, chosen nondeterministically.  A command runs from its  *)
(* invocation to its return through the controller calls it makes; pc      *)
(* names the controller call (or the pacing sleep) the command is waiting  *)
(* in, and "idle" means no command is executing.                           *)
(***************************************************************************)
EXTENDS Integers, Sequences, FiniteSets, TLC

VARIABLES
    limit,                \* how many commands the caller issues in this run
    chat,                 \* the chat session driving the manager, and its monitor thread
    connected,            \* self.connected
    mission_in_progress,  \* self.mission_in_progress
    status,               \* self.status
    phase,                \* self.phase
    log_entries,          \* self.log_entries
    history,              \* every log entry ever appended, in append order
    pc,                   \* where the executing command is; "idle" when none is
    cmd,                  \* the public method executing, or the last one that returned
    locals,               \* the arguments and loop index of the executing method
    calls,                \* controller primitives called by cmd so far, with outcomes
    ret,                  \* value cmd returned; "pending" while it executes
    pre,                  \* the manager's fields when cmd was invoked
    ncmds                 \* number of commands invoked so far

mgr == <<connected, mission_in_progress, status, phase, log_entries, history>>
vars == <<connected, mission_in_progress, status, phase, log_entries, history,
          limit, chat, pc, cmd, locals, calls, ret, pre, ncmds>>

----------------------------------------------------------------------------
(* Bounds and inputs *)

\* commands invoked in one run
MaxCmds == 3

\* capacity of the status log
LogCap == 50

\* number of waypoints of the long mission that fills the log
MissionLen == 60

\* what a controller primitive can do: return True, return False (or any
\* falsy value), or raise an Exception
Outcomes == {"true", "false", "raise"}

\* a primitive without a result returns or raises
VoidOutcomes == {"return", "raise"}

\* a telemetry accessor returns a value or raises
ReadOutcomes == {"value", "raise"}

\* controller.vehicle: missing or None, present with or without a GPS, or an
\* attribute access on it raises
VehicleOutcomes == {"novehicle", "nogps", "full", "raise"}

\* str(e) of an exception raised by the controller
ErrMsg == "link error"

\* coordinates are in units of 0.00001 degree
wA == [lat |-> 100001, lon |-> 100004, alt |-> 10]
wB == [lat |-> 200000, lon |-> 200000, alt |-> 10]
\* a dictionary without the 'lat' key: wp['lat'] raises KeyError
wNoLat == [lon |-> 300000, alt |-> 10]

Missions == { <<>>, <<wA>>, <<wB, wA>>, <<wA, wA>>, <<wA, wB, wA>>,
              <<wNoLat>>, <<wA, wNoLat, wB>> }

\* a mission long enough to push the log past its capacity
LongMission == [k \in 1..MissionLen |-> IF k % 2 = 1 THEN wA ELSE wB]

\* the two-waypoint mission of the connect, takeoff, mission scenario
TwoWaypoints == <<wA, wB>>
ScenarioMissions == {TwoWaypoints, <<wA>>}

\* the scenario issues one command more than the other runs
ScenarioCmds == MaxCmds + 1

Altitudes == {10}
Targets == {wB}
ConnectionStrings == {"udp:127.0.0.1:14550"}

----------------------------------------------------------------------------
(* The manager's fields as one value, and pure steps on it *)

Self == [connected |-> connected,
         mission_in_progress |-> mission_in_progress,
         status |-> status,
         phase |-> phase,
         log_entries |-> log_entries,
         history |-> history]

Become(m) ==
    /\ connected' = m.connected
    /\ mission_in_progress' = m.mission_in_progress
    /\ status' = m.status
    /\ phase' = m.phase
    /\ log_entries' = m.log_entries
    /\ history' = m.history

\* a phase string: the f-string's fixed text, its string argument and its
\* numeric arguments after formatting
Detail(fmt, s, nums) == [fmt |-> fmt, str |-> s, nums |-> nums]

\* "{x:.4f}": four decimals, i.e. the nearest ten-thousandth (inputs avoid ties)
Fmt4(x) == (x + 5) \div 10

LogEntry(s, p) == [status |-> s, phase |-> p]

\* a log that drops the newest entries once it is full
append_entry_keep_first(log, e) ==
    LET appended == Append(log, e)
    IN  IF Len(appended) > LogCap THEN SubSeq(appended, 1, LogCap) ELSE appended

\* the log after one append, keeping the last LogCap entries
append_entry(log, e) ==
    LET appended == Append(log, e)
        n == Len(appended)
    IN  IF n > LogCap THEN SubSeq(appended, n - LogCap + 1, n) ELSE appended

\* a transition to the status the manager already has is not logged
update_status_deduplicated(m, s, p) ==
    IF s = m.status
    THEN [m EXCEPT !.phase = p]
    ELSE [m EXCEPT !.status = s, !.phase = p,
                   !.log_entries = append_entry(m.log_entries, LogEntry(s, p)),
                   !.history = Append(m.history, LogEntry(s, p))]

_update_status(m, s, p) ==
    [m EXCEPT !.status = s, !.phase = p,
              !.log_entries = append_entry(m.log_entries, LogEntry(s, p)),
              !.history = Append(m.history, LogEntry(s, p))]

\* a guard that lets every command through
ensure_connected_always(m) == TRUE

_ensure_connected(m) == m.connected

\* the values get_status copies from the manager's fields; empty elsewhere
NoData == [connected |-> FALSE, mission_in_progress |-> FALSE, status |-> "",
           phase |-> Detail("", "", <<>>), log_entries |-> <<>>]

\* what a public method returns: True, False, None or a dictionary (its keys,
\* the message under 'error' when it is an error marker, and the values
\* get_status copies from the fields)
Ret(v) == [value |-> v, keys |-> {}, error |-> "", data |-> NoData]
Dict(keys) == [value |-> "dict", keys |-> keys, error |-> "", data |-> NoData]
ErrorDict(msg) == [value |-> "dict", keys |-> {"error"}, error |-> msg, data |-> NoData]
Bool(b) == IF b THEN Ret("True") ELSE Ret("False")
Pending == Ret("pending")

NoLocals == [altitude |-> 0, waypoints |-> <<>>, i |-> 0, target |-> wB,
             connection_string |-> ""]

Call(prim, o) == [prim |-> prim, outcome |-> o]

\* the public methods whose controller calls, and calls of other methods of
\* the manager, all lie inside a try with "except Exception"
TryMethods == {"connect_drone", "disconnect_drone", "takeoff", "land",
               "return_home", "fly_to", "get_location", "get_battery",
               "execute_mission", "get_status", "emergency_stop",
               "get_telemetry"}

\* get_status with its telemetry block outside any try
Catches_not_get_status(method) == method \in TryMethods \ {"get_status"}

\* an exception raised inside method is handled by method's except branch
Catches(method) == method \in TryMethods

\* outcome o of a call made by method leaves method as an exception
Escapes(method, o) == o = "raise" /\ ~Catches(method)

\* a public method left by an exception instead of a return
Raised == Ret("raised")

\* Who may call the manager: without a chat session, any caller until the
\* run's commands are used up; the session loop while the session is active;
\* _handle_exit and _cleanup for their one disconnect_drone; _emergency_stop
\* for its one emergency_stop; the loop of TerminalDroneChat.start
Allowed(name) ==
    CASE chat.sess = "none" -> ncmds < limit
      [] chat.sess = "loop" -> chat.session_active /\ ncmds < limit
      [] chat.sess = "t_loop" -> ncmds < limit
      [] chat.sess \in {"exit_disc", "cleanup_disc"} ->
             name = "disconnect_drone" /\ ncmds = chat.at
      [] chat.sess = "emergency_call" ->
             name = "emergency_stop" /\ ncmds = chat.at
      [] OTHER -> FALSE

\* a caller that does not wait for the executing command to return
EnterReentrant(name) ==
    /\ Allowed(name)
    /\ ncmds' = ncmds + 1
    /\ cmd' = name
    /\ pre' = Self

\* a public method is entered: no other command is executing
Enter(name) ==
    /\ pc = "idle"
    /\ Allowed(name)
    /\ ncmds' = ncmds + 1
    /\ cmd' = name
    /\ pre' = Self

\* the executing method returns r
Return(r) == pc' = "idle" /\ ret' = r /\ UNCHANGED <<limit, chat>>

\* the executing method goes on to wait in the controller call at label l
Goto(l) == pc' = l /\ ret' = Pending /\ UNCHANGED <<limit, chat>>

\* an exception leaves the executing public method: nothing more is assigned
Propagate == UNCHANGED mgr /\ Return(Raised)

----------------------------------------------------------------------------
\* the manager as __init__ leaves it, no command issued yet
Fresh ==
    /\ connected = FALSE
    /\ mission_in_progress = FALSE
    /\ status = "STANDBY"
    /\ phase = Detail("", "", <<>>)
    /\ log_entries = <<>>
    /\ history = <<>>
    /\ pc = "idle"
    /\ cmd = "__init__"
    /\ locals = NoLocals
    /\ calls = <<>>
    /\ ret = Ret("None")
    /\ pre = [connected |-> FALSE, mission_in_progress |-> FALSE,
              status |-> "STANDBY", phase |-> Detail("", "", <<>>),
              log_entries |-> <<>>, history |-> <<>>]
    /\ ncmds = 0

\* no chat session: the manager is called directly
NoChat == [session_active |-> FALSE, status_running |-> FALSE, sess |-> "none",
           at |-> 0, mon |-> "unstarted", mon_pc |-> "idle",
           typed |-> "", typed_pc |-> "idle"]

Init == Fresh /\ limit = MaxCmds /\ chat = NoChat

----------------------------------------------------------------------------
(* takeoff *)

takeoff_begin(m, altitude) ==
    [_update_status(m, "TAKING OFF", Detail("Taking off to {} meters", "", <<altitude>>))
        EXCEPT !.mission_in_progress = TRUE]

\* takeoff whose success branch forgets its AIRBORNE transition
takeoff_end_no_airborne(m, o, altitude) ==
    CASE o = "true" -> m
      [] o = "false" ->
            [_update_status(m, "ERROR", Detail("Takeoff failed", "", <<>>))
                EXCEPT !.mission_in_progress = FALSE]
      [] o = "raise" ->
            [_update_status(m, "ERROR", Detail("Takeoff error: {}", ErrMsg, <<>>))
                EXCEPT !.mission_in_progress = FALSE]

takeoff_end(m, o, altitude) ==
    CASE o = "true" ->
            _update_status(m, "AIRBORNE", Detail("Reached altitude of {} meters", "", <<altitude>>))
      [] o = "false" ->
            [_update_status(m, "ERROR", Detail("Takeoff failed", "", <<>>))
                EXCEPT !.mission_in_progress = FALSE]
      [] o = "raise" ->
            [_update_status(m, "ERROR", Detail("Takeoff error: {}", ErrMsg, <<>>))
                EXCEPT !.mission_in_progress = FALSE]

Takeoff(altitude) ==
    /\ Enter("takeoff")
    /\ calls' = <<>>
    /\ locals' = [NoLocals EXCEPT !.altitude = altitude]
    /\ IF _ensure_connected(Self)
       THEN Become(takeoff_begin(Self, altitude)) /\ Goto("arm_and_takeoff")
       ELSE UNCHANGED mgr /\ Return(Ret("False"))

\* a takeoff that calls the controller a second time after a failure
ArmAndTakeoffRetry(o) ==
    /\ pc = "arm_and_takeoff"
    /\ calls' = Append(calls, Call("arm_and_takeoff", o))
    /\ IF o # "true" /\ calls = <<>>
       THEN UNCHANGED mgr /\ Goto("arm_and_takeoff")
       ELSE Become(takeoff_end(Self, o, locals.altitude)) /\ Return(Bool(o = "true"))
    /\ UNCHANGED <<cmd, locals, pre, ncmds>>

ArmAndTakeoff(o) ==
    /\ pc = "arm_and_takeoff"
    /\ calls' = Append(calls, Call("arm_and_takeoff", o))
    /\ IF Escapes("takeoff", o)
       THEN Propagate
       ELSE Become(takeoff_end(Self, o, locals.altitude)) /\ Return(Bool(o = "true"))
    /\ UNCHANGED <<cmd, locals, pre, ncmds>>

----------------------------------------------------------------------------
(* get_location, get_battery, get_telemetry, get_status: they change no field *)

get_location_calls(m, o) ==
    IF _ensure_connected(m) THEN <<Call("get_current_location", o)>> ELSE <<>>

get_location_result(m, o) ==
    IF ~_ensure_connected(m) THEN ErrorDict("Not connected to drone")
    ELSE IF Escapes("get_location", o) THEN Raised
    ELSE IF o = "raise" THEN ErrorDict(ErrMsg)
    ELSE Dict({"lat", "lon", "alt"})

get_battery_calls(m, o) ==
    IF _ensure_connected(m) THEN <<Call("get_battery_status", o)>> ELSE <<>>

\* a get_battery that lets the accessor's exception out
get_battery_result_raises(m, o) ==
    IF ~_ensure_connected(m) THEN ErrorDict("Not connected to drone")
    ELSE IF o = "raise" THEN Raised
    ELSE Dict({"voltage", "level"})

get_battery_result(m, o) ==
    IF ~_ensure_connected(m) THEN ErrorDict("Not connected to drone")
    ELSE IF Escapes("get_battery", o) THEN Raised
    ELSE IF o = "raise" THEN ErrorDict(ErrMsg)
    ELSE Dict({"voltage", "level"})

\* self.get_location() then self.get_battery(), as connect_drone, get_status
\* and get_telemetry call them: the controller calls made, and whether an
\* exception came out of one of the two methods
reads_calls(m, ol, ob) ==
    get_location_calls(m, ol)
    \o (IF get_location_result(m, ol) = Raised THEN <<>> ELSE get_battery_calls(m, ob))

reads_escape(m, ol, ob) ==
    get_location_result(m, ol) = Raised \/ get_battery_result(m, ob) = Raised

\* a get_location that resets an ERROR status to STANDBY
GetLocationResets(o) ==
    /\ Enter("get_location")
    /\ locals' = NoLocals
    /\ calls' = get_location_calls(Self, o)
    /\ Become(IF status = "ERROR" THEN [Self EXCEPT !.status = "STANDBY"] ELSE Self)
    /\ Return(get_location_result(Self, o))

GetLocation(o) ==
    /\ Enter("get_location")
    /\ locals' = NoLocals
    /\ calls' = get_location_calls(Self, o)
    /\ UNCHANGED mgr
    /\ Return(get_location_result(Self, o))

GetBattery(o) ==
    /\ Enter("get_battery")
    /\ locals' = NoLocals
    /\ calls' = get_battery_calls(Self, o)
    /\ UNCHANGED mgr
    /\ Return(get_battery_result(Self, o))

VehicleKeys == {"mode", "armed", "system_status", "airspeed", "groundspeed", "heading"}

\* the accesses to self.controller.vehicle, made unless an exception from
\* the two reads before them ended the try block
vehicle_calls(m, ol, ob, ov) ==
    IF reads_escape(m, ol, ob) \/ ov = "novehicle" THEN <<>> ELSE <<Call("vehicle", ov)>>

get_telemetry_calls(m, ol, ob, ov) ==
    IF ~_ensure_connected(m) THEN <<>>
    ELSE reads_calls(m, ol, ob) \o vehicle_calls(m, ol, ob, ov)

get_telemetry_result(m, ol, ob, ov) ==
    IF ~_ensure_connected(m) THEN ErrorDict("Not connected to drone")
    ELSE IF reads_escape(m, ol, ob) \/ ov = "raise"
         THEN IF Catches("get_telemetry") THEN ErrorDict(ErrMsg) ELSE Raised
    ELSE CASE ov = "novehicle" -> Dict({"location", "battery"})
           [] ov = "nogps" -> Dict({"location", "battery"} \cup VehicleKeys)
           [] ov = "full" -> Dict({"location", "battery", "gps"} \cup VehicleKeys)

\* get_status: lines 225-231 always, lines 235-241 when connected
StatusKeys == {"connected", "mission_in_progress", "status", "phase", "log_entries"}

get_status_calls(m, ol, ob, ov) ==
    IF m.connected THEN reads_calls(m, ol, ob) \o vehicle_calls(m, ol, ob, ov) ELSE <<>>

\* an exception inside the try adds telemetry_error to the keys set before it
\* (an exception from controller.vehicle is taken at its first access)
get_status_keys(m, ol, ob, ov) ==
    IF ~m.connected THEN (StatusKeys)
    ELSE IF reads_escape(m, ol, ob)
         THEN IF Catches("get_status")
              THEN (StatusKeys \cup {"telemetry_error"}
                        \cup (IF get_location_result(m, ol) = Raised THEN {} ELSE {"location"}))
              ELSE {"raised"}
    ELSE IF ov = "raise"
         THEN IF Catches("get_status")
              THEN (StatusKeys \cup {"location", "battery", "telemetry_error"})
              ELSE {"raised"}
    ELSE IF ov = "novehicle" THEN (StatusKeys \cup {"location", "battery"})
    ELSE (StatusKeys \cup {"location", "battery", "mode", "armed", "system_status"})

\* the number of log entries get_status returns
RecentCount == 5

\* the first entries of the log instead of the last ones
last_entries_oldest(log) ==
    SubSeq(log, 1, IF Len(log) > RecentCount THEN RecentCount ELSE Len(log))

\* self.log_entries[-5:]
last_entries(log) ==
    SubSeq(log, IF Len(log) > RecentCount THEN Len(log) - RecentCount + 1 ELSE 1,
           Len(log))

\* lines 225-231
status_info(m) ==
    [connected |-> m.connected, mission_in_progress |-> m.mission_in_progress,
     status |-> m.status, phase |-> m.phase,
     log_entries |-> last_entries(m.log_entries)]

get_status_result(m, ol, ob, ov) ==
    LET keys == get_status_keys(m, ol, ob, ov)
    IN  IF keys = {"raised"} THEN Raised
        ELSE [Dict(keys) EXCEPT !.data = status_info(m)]

GetStatus(ol, ob, ov) ==
    /\ Enter("get_status")
    /\ locals' = NoLocals
    /\ calls' = get_status_calls(Self, ol, ob, ov)
    /\ UNCHANGED mgr
    /\ Return(get_status_result(Self, ol, ob, ov))

\* a get_telemetry that records a failed snapshot as an ERROR transition
GetTelemetryMarksError(ol, ob, ov) ==
    /\ Enter("get_telemetry")
    /\ locals' = NoLocals
    /\ calls' = get_telemetry_calls(Self, ol, ob, ov)
    /\ Become(IF get_telemetry_result(Self, ol, ob, ov) = ErrorDict(ErrMsg)
              THEN _update_status(Self, "ERROR", Detail("Telemetry error: {}", ErrMsg, <<>>))
              ELSE Self)
    /\ Return(get_telemetry_result(Self, ol, ob, ov))

GetTelemetry(ol, ob, ov) ==
    /\ Enter("get_telemetry")
    /\ locals' = NoLocals
    /\ calls' = get_telemetry_calls(Self, ol, ob, ov)
    /\ UNCHANGED mgr
    /\ Return(get_telemetry_result(Self, ol, ob, ov))

is_connected(m) == m.connected

IsConnected ==
    /\ Enter("is_connected")
    /\ locals' = NoLocals
    /\ calls' = <<>>
    /\ UNCHANGED mgr
    /\ Return(Bool(is_connected(Self)))

----------------------------------------------------------------------------
(* connect_drone, disconnect_drone *)

\* connect_drone without its CONNECTING transition
connect_begin_silent(m, connection_string) == m

connect_begin(m, connection_string) ==
    _update_status(m, "CONNECTING", Detail("Connecting to {}", connection_string, <<>>))

connect_end(m, o) ==
    CASE o = "true" ->
            _update_status([m EXCEPT !.connected = TRUE], "CONNECTED",
                           Detail("Successfully connected to drone", "", <<>>))
      [] o = "false" ->
            _update_status(m, "ERROR", Detail("Failed to connect to drone", "", <<>>))
      [] o = "raise" ->
            _update_status(m, "ERROR", Detail("Connection error: {}", ErrMsg, <<>>))

ConnectDrone(connection_string) ==
    /\ Enter("connect_drone")
    /\ calls' = <<>>
    /\ locals' = [NoLocals EXCEPT !.connection_string = connection_string]
    /\ Become(connect_begin(Self, connection_string))
    /\ Goto("connect_to_drone")

\* the controller's connect returns; on success the initial location and
\* battery are read for the log line
ConnectToDrone(o, ol, ob) ==
    /\ pc = "connect_to_drone"
    /\ LET m == connect_end(Self, o)
       IN  IF Escapes("connect_drone", o)
           THEN calls' = Append(calls, Call("connect_to_drone", o)) /\ Propagate
           ELSE IF o = "true"
           THEN /\ calls' = Append(calls, Call("connect_to_drone", o)) \o reads_calls(m, ol, ob)
                /\ IF ~reads_escape(m, ol, ob)
                   THEN Become(m) /\ Return(Ret("True"))
                   ELSE IF Catches("connect_drone")
                        THEN Become(connect_end(m, "raise")) /\ Return(Ret("False"))
                        ELSE Become(m) /\ Return(Raised)
           ELSE /\ calls' = Append(calls, Call("connect_to_drone", o))
                /\ Become(m) /\ Return(Ret("False"))
    /\ UNCHANGED <<cmd, locals, pre, ncmds>>

disconnect_begin(m) ==
    _update_status(m, "DISCONNECTING", Detail("Disconnecting from drone", "", <<>>))

\* a disconnect that forgets the mission flag
disconnect_end_keeps_flag(m, o) ==
    IF o = "return"
    THEN _update_status([m EXCEPT !.connected = FALSE],
                        "STANDBY", Detail("Disconnected from drone", "", <<>>))
    ELSE m

\* controller.disconnect() returned: lines 58-60; it raised: line 63 only
disconnect_end(m, o) ==
    IF o = "return"
    THEN _update_status([m EXCEPT !.connected = FALSE, !.mission_in_progress = FALSE],
                        "STANDBY", Detail("Disconnected from drone", "", <<>>))
    ELSE m

DisconnectDrone ==
    /\ Enter("disconnect_drone")
    /\ calls' = <<>>
    /\ locals' = NoLocals
    /\ Become(disconnect_begin(Self))
    /\ Goto("disconnect")

Disconnect(o) ==
    /\ pc = "disconnect"
    /\ calls' = Append(calls, Call("disconnect", o))
    /\ IF Escapes("disconnect_drone", o)
       THEN Propagate
       ELSE Become(disconnect_end(Self, o)) /\ Return(Ret("None"))
    /\ UNCHANGED <<cmd, locals, pre, ncmds>>

----------------------------------------------------------------------------
(* land, return_home, fly_to *)

land_begin(m) == _update_status(m, "LANDING", Detail("Landing drone", "", <<>>))

\* land() without its LANDED transition
land_end_no_landed(m, o) ==
    CASE o = "true" -> [m EXCEPT !.mission_in_progress = FALSE]
      [] o = "false" -> _update_status(m, "ERROR", Detail("Landing failed", "", <<>>))
      [] o = "raise" -> _update_status(m, "ERROR", Detail("Landing error: {}", ErrMsg, <<>>))

land_end(m, o) ==
    CASE o = "true" ->
            [_update_status(m, "LANDED", Detail("Drone has landed", "", <<>>))
                EXCEPT !.mission_in_progress = FALSE]
      [] o = "false" -> _update_status(m, "ERROR", Detail("Landing failed", "", <<>>))
      [] o = "raise" -> _update_status(m, "ERROR", Detail("Landing error: {}", ErrMsg, <<>>))

\* return_home() that never reports success
return_home_result_never(o) == FALSE

\* what return_home() returns after the controller call
return_home_result(o) == o = "true"

return_home_begin(m) ==
    _update_status(m, "RETURNING", Detail("Returning to launch point", "", <<>>))

\* a return_home that gives the mission up when the return fails
return_home_end_clears_flag(m, o) ==
    CASE o = "true" ->
            _update_status(m, "RETURNING", Detail("Drone is returning to launch point", "", <<>>))
      [] o = "false" ->
            [_update_status(m, "ERROR", Detail("Return to home failed", "", <<>>))
                EXCEPT !.mission_in_progress = FALSE]
      [] o = "raise" ->
            [_update_status(m, "ERROR", Detail("Return error: {}", ErrMsg, <<>>))
                EXCEPT !.mission_in_progress = FALSE]

return_home_end(m, o) ==
    CASE o = "true" ->
            _update_status(m, "RETURNING", Detail("Drone is returning to launch point", "", <<>>))
      [] o = "false" -> _update_status(m, "ERROR", Detail("Return to home failed", "", <<>>))
      [] o = "raise" -> _update_status(m, "ERROR", Detail("Return error: {}", ErrMsg, <<>>))

fly_to_begin(m, t) ==
    _update_status(m, "NAVIGATING",
                   Detail("Flying to lat:{:.4f}, lon:{:.4f}, alt:{}m", "",
                          <<Fmt4(t.lat), Fmt4(t.lon), t.alt>>))

\* fly_to whose failure branch forgets its ERROR transition
fly_to_end_silent(m, o) ==
    CASE o = "true" -> m
      [] o = "false" -> m
      [] o = "raise" -> _update_status(m, "ERROR", Detail("Navigation error: {}", ErrMsg, <<>>))

fly_to_end(m, o) ==
    CASE o = "true" -> m
      [] o = "false" -> _update_status(m, "ERROR", Detail("Navigation failed", "", <<>>))
      [] o = "raise" -> _update_status(m, "ERROR", Detail("Navigation error: {}", ErrMsg, <<>>))

Land ==
    /\ Enter("land")
    /\ calls' = <<>>
    /\ locals' = NoLocals
    /\ IF _ensure_connected(Self)
       THEN Become(land_begin(Self)) /\ Goto("land")
       ELSE UNCHANGED mgr /\ Return(Ret("False"))

ReturnHome ==
    /\ Enter("return_home")
    /\ calls' = <<>>
    /\ locals' = NoLocals
    /\ IF _ensure_connected(Self)
       THEN Become(return_home_begin(Self)) /\ Goto("return_to_launch")
       ELSE UNCHANGED mgr /\ Return(Ret("False"))

FlyTo(t) ==
    /\ Enter("fly_to")
    /\ calls' = <<>>
    /\ locals' = [NoLocals EXCEPT !.target = t]
    /\ IF _ensure_connected(Self)
       THEN Become(fly_to_begin(Self, t)) /\ Goto("goto_location")
       ELSE UNCHANGED mgr /\ Return(Ret("False"))

GotoLocation(o) ==
    /\ pc = "goto_location"
    /\ calls' = Append(calls, Call("goto_location", o))
    /\ IF Escapes("fly_to", o)
       THEN Propagate
       ELSE Become(fly_to_end(Self, o)) /\ Return(Bool(o = "true"))
    /\ UNCHANGED <<cmd, locals, pre, ncmds>>

----------------------------------------------------------------------------
(* emergency_stop: line 258, then return_home() and, when that returned    *)
(* False, land(); line 264 after them                                      *)

\* an emergency stop that does not announce itself
emergency_begin_silent(m) == m

emergency_begin(m) ==
    _update_status(m, "EMERGENCY", Detail("Emergency stop initiated", "", <<>>))

\* emergency_stop without line 264
emergency_end_keeps_flag(m) == m

emergency_end(m) == [m EXCEPT !.mission_in_progress = FALSE]

\* emergency_stop without its own connection check
emergency_guard_open(m) == TRUE

\* lines 254-255: emergency_stop goes on only when connected
emergency_guard(m) == m.connected

EmergencyStop ==
    /\ Enter("emergency_stop")
    /\ calls' = <<>>
    /\ locals' = NoLocals
    /\ IF ~emergency_guard(Self)
       THEN UNCHANGED mgr /\ Return(Ret("None"))
       ELSE LET m == emergency_begin(Self)
            IN  IF _ensure_connected(m)
                THEN Become(return_home_begin(m)) /\ Goto("return_to_launch")
                ELSE Become(emergency_end(m)) /\ Return(Ret("None"))

\* controller.return_to_launch() returns to return_home, which returns to its
\* caller: the user, or emergency_stop at line 261
ReturnToLaunch(o) ==
    /\ pc = "return_to_launch"
    /\ calls' = Append(calls, Call("return_to_launch", o))
    /\ LET m == return_home_end(Self, o)
       IN  IF Escapes("return_home", o)
           THEN IF cmd = "emergency_stop" /\ Catches("emergency_stop")
                THEN UNCHANGED mgr /\ Return(Ret("None"))
                ELSE Propagate
           ELSE IF cmd = "return_home"
           THEN Become(m) /\ Return(Bool(return_home_result(o)))
           ELSE IF return_home_result(o)
                THEN Become(emergency_end(m)) /\ Return(Ret("None"))
                ELSE IF _ensure_connected(m)
                     THEN Become(land_begin(m)) /\ Goto("land")
                     ELSE Become(emergency_end(m)) /\ Return(Ret("None"))
    /\ UNCHANGED <<cmd, locals, pre, ncmds>>

\* controller.land() returns to land, which returns to its caller: the user,
\* or emergency_stop at line 262
LandLink(o) ==
    /\ pc = "land"
    /\ calls' = Append(calls, Call("land", o))
    /\ LET m == land_end(Self, o)
       IN  IF Escapes("land", o)
           THEN IF cmd = "emergency_stop" /\ Catches("emergency_stop")
                THEN UNCHANGED mgr /\ Return(Ret("None"))
                ELSE Propagate
           ELSE IF cmd = "land"
           THEN Become(m) /\ Return(Bool(o = "true"))
           ELSE Become(emergency_end(m)) /\ Return(Ret("None"))
    /\ UNCHANGED <<cmd, locals, pre, ncmds>>

----------------------------------------------------------------------------
(* execute_mission *)

WellFormed(wp) == {"lat", "lon"} \subseteq DOMAIN wp

\* the key wp['lat'] or wp['lon'] fails on, as KeyError prints it
MissingKey(wp) == IF "lat" \in DOMAIN wp THEN "'lon'" ELSE "'lat'"

\* an execute_mission that takes the empty list like any other
no_waypoints_unchecked(waypoints) == FALSE

\* line 182: "if not waypoints"
no_waypoints(waypoints) == waypoints = <<>>

\* an execute_mission that goes on after a failed upload
upload_ok_unchecked(o) == TRUE

\* line 192: upload_success is truthy
upload_ok(o) == o = "true"

mission_begin(m, waypoints) ==
    [_update_status(m, "MISSION",
                    Detail("Starting mission with {} waypoints", "", <<Len(waypoints)>>))
        EXCEPT !.mission_in_progress = TRUE]

\* the except branch without line 219
mission_error_keeps_flag(m, msg) ==
    _update_status(m, "ERROR", Detail("Mission error: {}", msg, <<>>))

mission_error(m, msg) ==
    [_update_status(m, "ERROR", Detail("Mission error: {}", msg, <<>>))
        EXCEPT !.mission_in_progress = FALSE]

upload_end(m, o) ==
    CASE o = "true" -> m
      [] o = "false" ->
            [_update_status(m, "ERROR", Detail("Failed to upload mission", "", <<>>))
                EXCEPT !.mission_in_progress = FALSE]
      [] o = "raise" -> mission_error(m, ErrMsg)

start_end(m, o) ==
    CASE o = "true" ->
            _update_status(m, "EXECUTING", Detail("Mission execution started", "", <<>>))
      [] o = "false" ->
            [_update_status(m, "ERROR", Detail("Failed to start mission execution", "", <<>>))
                EXCEPT !.mission_in_progress = FALSE]
      [] o = "raise" -> mission_error(m, ErrMsg)

WaypointDetail(i, n, wp) ==
    Detail("Waypoint {}/{}: {:.4f}, {:.4f}", "", <<i, n, Fmt4(wp.lat), Fmt4(wp.lon)>>)

\* the loop walking the list from its end
waypoint_step_reversed(m, i, waypoints) ==
    LET j == Len(waypoints) - i + 1
    IN  IF WellFormed(waypoints[j])
        THEN _update_status(m, "EXECUTING", WaypointDetail(j, Len(waypoints), waypoints[j]))
        ELSE mission_error(m, MissingKey(waypoints[j]))

\* one iteration of the loop at line 203, for the i-th waypoint
waypoint_step(m, i, waypoints) ==
    IF WellFormed(waypoints[i])
    THEN _update_status(m, "EXECUTING", WaypointDetail(i, Len(waypoints), waypoints[i]))
    ELSE mission_error(m, MissingKey(waypoints[i]))

\* a mission that ends without its completion transition
mission_complete_silent(m) == m

mission_complete(m) ==
    _update_status(m, "MISSION COMPLETE", Detail("All waypoints reached", "", <<>>))

ExecuteMission(waypoints) ==
    /\ Enter("execute_mission")
    /\ calls' = <<>>
    /\ locals' = [NoLocals EXCEPT !.waypoints = waypoints]
    /\ IF ~_ensure_connected(Self)
       THEN UNCHANGED mgr /\ Return(Ret("False"))
       ELSE IF no_waypoints(waypoints)
            THEN UNCHANGED mgr /\ Return(Ret("False"))
            ELSE Become(mission_begin(Self, waypoints)) /\ Goto("upload_mission")

UploadMission(o) ==
    /\ pc = "upload_mission"
    /\ calls' = Append(calls, Call("upload_mission", o))
    /\ IF Escapes("execute_mission", o)
       THEN Propagate
       ELSE /\ Become(upload_end(Self, o))
            /\ IF upload_ok(o) THEN Goto("execute_mission") ELSE Return(Ret("False"))
    /\ UNCHANGED <<cmd, locals, pre, ncmds>>

\* controller.execute_mission() returns; on success the loop starts
StartMission(o) ==
    /\ pc = "execute_mission"
    /\ calls' = Append(calls, Call("execute_mission", o))
    /\ IF Escapes("execute_mission", o)
       THEN Propagate /\ UNCHANGED locals
       ELSE /\ Become(start_end(Self, o))
            /\ IF o = "true"
               THEN Goto("waypoint") /\ locals' = [locals EXCEPT !.i = 1]
               ELSE Return(Ret("False")) /\ UNCHANGED locals
    /\ UNCHANGED <<cmd, pre, ncmds>>

\* the loop body for waypoint i, up to the end of its sleep
Waypoint ==
    /\ pc = "waypoint"
    /\ locals.i <= Len(locals.waypoints)
    /\ IF WellFormed(locals.waypoints[locals.i])
       THEN /\ Become(waypoint_step(Self, locals.i, locals.waypoints))
            /\ Goto("waypoint") /\ locals' = [locals EXCEPT !.i = @ + 1]
       ELSE /\ UNCHANGED locals
            /\ IF Catches("execute_mission")
               THEN Become(waypoint_step(Self, locals.i, locals.waypoints))
                    /\ Return(Ret("False"))
               ELSE Propagate
    /\ UNCHANGED <<cmd, calls, pre, ncmds>>

\* the loop is over: lines 210-211
MissionComplete ==
    /\ pc = "waypoint"
    /\ locals.i > Len(locals.waypoints)
    /\ Become(mission_complete(Self))
    /\ Return(Ret("True"))
    /\ UNCHANGED <<cmd, locals, calls, pre, ncmds>>

----------------------------------------------------------------------------
Next ==
    \/ \E cs \in ConnectionStrings : ConnectDrone(cs)
    \/ \E o \in Outcomes, ol \in ReadOutcomes, ob \in ReadOutcomes : ConnectToDrone(o, ol, ob)
    \/ DisconnectDrone
    \/ \E o \in VoidOutcomes : Disconnect(o)
    \/ \E a \in Altitudes : Takeoff(a)
    \/ \E o \in Outcomes : ArmAndTakeoff(o)
    \/ Land
    \/ \E o \in Outcomes : LandLink(o)
    \/ ReturnHome
    \/ \E o \in Outcomes : ReturnToLaunch(o)
    \/ \E t \in Targets : FlyTo(t)
    \/ \E o \in Outcomes : GotoLocation(o)
    \/ \E w \in Missions : ExecuteMission(w)
    \/ \E o \in Outcomes : UploadMission(o)
    \/ \E o \in Outcomes : StartMission(o)
    \/ Waypoint
    \/ MissionComplete
    \/ EmergencyStop
    \/ \E o \in ReadOutcomes : GetLocation(o)
    \/ \E o \in ReadOutcomes : GetBattery(o)
    \/ \E ol \in ReadOutcomes, ob \in ReadOutcomes, ov \in VehicleOutcomes : GetTelemetry(ol, ob, ov)
    \/ \E ol \in ReadOutcomes, ob \in ReadOutcomes, ov \in VehicleOutcomes : GetStatus(ol, ob, ov)
    \/ IsConnected

Spec == Init /\ [][Next]_vars

\* The same manager driven with the long mission, to fill the log
NextLog ==
    \/ \E cs \in ConnectionStrings : ConnectDrone(cs)
    \/ \E o \in Outcomes, ol \in ReadOutcomes, ob \in ReadOutcomes : ConnectToDrone(o, ol, ob)
    \/ DisconnectDrone
    \/ \E o \in VoidOutcomes : Disconnect(o)
    \/ \E a \in Altitudes : Takeoff(a)
    \/ \E o \in Outcomes : ArmAndTakeoff(o)
    \/ ExecuteMission(LongMission)
    \/ \E o \in Outcomes : UploadMission(o)
    \/ \E o \in Outcomes : StartMission(o)
    \/ Waypoint
    \/ MissionComplete

SpecLog == Init /\ [][NextLog]_vars

\* The manager on a link whose calls all succeed
InitScenario == Fresh /\ limit = ScenarioCmds /\ chat = NoChat

NextScenario ==
    \/ \E cs \in ConnectionStrings : ConnectDrone(cs)
    \/ ConnectToDrone("true", "value", "value")
    \/ \E a \in Altitudes : Takeoff(a)
    \/ ArmAndTakeoff("true")
    \/ \E w \in ScenarioMissions : ExecuteMission(w)
    \/ UploadMission("true")
    \/ StartMission("true")
    \/ Waypoint
    \/ MissionComplete
    \/ GetStatus("value", "value", "full")

SpecScenario == InitScenario /\ [][NextScenario]_vars

----------------------------------------------------------------------------
(* DroneChatInterface: the session loop of start() and the monitor thread.
   chat.sess is where start() is: "new" before it is called, "loop" in the
   while loop, "exit" in _handle_exit, "exit_disc" while _handle_exit waits
   for disconnect_drone, "cleanup" entering _cleanup, "cleanup_disc" while
   _cleanup waits for disconnect_drone, "ended" when start() has finished.
   chat.mon is where _status_monitor_loop is: "unstarted", "test_running"
   before it reads status_running, "test_active" before it reads
   session_active, "sleep" in time.sleep(5), "done" when it has returned.
   chat.at is ncmds when a disconnect_drone of the session was decided, and
   chat.mon_pc is the manager's pc at the monitor's last step.
   chat.typed is the line the user has typed and input() has not yet
   returned ("" when there is none), chat.typed_pc the manager's pc when it
   was typed; "emergency_call" is start() inside _emergency_stop. *)

\* the manager and its caller's bookkeeping, which the session and monitor
\* code below does not touch
mgrvars == <<mgr, pc, cmd, locals, calls, ret, pre, ncmds, limit>>

\* DroneChatInterface.__init__
NewChat == [session_active |-> TRUE, status_running |-> FALSE, sess |-> "new",
            at |-> 0, mon |-> "unstarted", mon_pc |-> "idle",
            typed |-> "", typed_pc |-> "idle"]

InitChat == Fresh /\ limit = MaxCmds /\ chat = NewChat

\* start() up to the while loop: _start_status_monitor starts the thread
Start ==
    /\ chat.sess = "new"
    /\ chat' = [chat EXCEPT !.status_running = TRUE, !.mon = "test_running",
                            !.sess = "loop"]
    /\ UNCHANGED mgrvars

\* the user types quit, or input() is interrupted or at its end:
\* _handle_special_commands clears session_active and the loop continues
Quit ==
    /\ chat.sess = "loop" /\ pc = "idle" /\ chat.session_active
    /\ chat' = [chat EXCEPT !.session_active = FALSE]
    /\ UNCHANGED mgrvars

\* the while test fails: on to the finally clause
LoopExit ==
    /\ chat.sess = "loop" /\ pc = "idle" /\ ~chat.session_active
    /\ chat' = [chat EXCEPT !.sess = "cleanup"]
    /\ UNCHANGED mgrvars

\* KeyboardInterrupt or EOFError in the loop body, between manager calls
Interrupt ==
    /\ chat.sess = "loop" /\ pc = "idle" /\ chat.session_active
    /\ chat' = [chat EXCEPT !.sess = "exit"]
    /\ UNCHANGED mgrvars

\* _handle_exit: when connected it asks whether to disconnect; the answer is
\* yes, no, or an interrupt that leaves _handle_exit before line 493
handle_exit(c, m, answer, n) ==
    IF is_connected(m)
    THEN CASE answer = "yes" -> [c EXCEPT !.sess = "exit_disc", !.at = n]
           [] answer = "no" -> [c EXCEPT !.session_active = FALSE, !.sess = "cleanup"]
           [] answer = "interrupt" -> [c EXCEPT !.sess = "cleanup"]
    ELSE [c EXCEPT !.session_active = FALSE, !.sess = "cleanup"]

HandleExit(answer) ==
    /\ chat.sess = "exit"
    /\ chat' = handle_exit(chat, Self, answer, ncmds)
    /\ UNCHANGED mgrvars

\* disconnect_drone has returned to _handle_exit: line 493, then break
ExitDisconnected ==
    /\ chat.sess = "exit_disc" /\ pc = "idle" /\ ncmds > chat.at
    /\ chat' = [chat EXCEPT !.session_active = FALSE, !.sess = "cleanup"]
    /\ UNCHANGED mgrvars

\* a _cleanup that leaves the monitor's flag set
cleanup_keeps_running(c, m, n) ==
    IF is_connected(m)
    THEN [c EXCEPT !.sess = "cleanup_disc", !.at = n]
    ELSE [c EXCEPT !.sess = "ended"]

\* _cleanup, lines 539-540
cleanup(c, m, n) ==
    IF is_connected(m)
    THEN [c EXCEPT !.status_running = FALSE, !.sess = "cleanup_disc", !.at = n]
    ELSE [c EXCEPT !.status_running = FALSE, !.sess = "ended"]

Cleanup ==
    /\ chat.sess = "cleanup"
    /\ chat' = cleanup(chat, Self, ncmds)
    /\ UNCHANGED mgrvars

\* disconnect_drone has returned to _cleanup: start() finishes
CleanupDisconnected ==
    /\ chat.sess = "cleanup_disc" /\ pc = "idle" /\ ncmds > chat.at
    /\ chat' = [chat EXCEPT !.sess = "ended"]
    /\ UNCHANGED mgrvars

\* the loop test of _status_monitor_loop reads self.status_running ...
MonitorReadRunning ==
    /\ chat.mon = "test_running"
    /\ chat' = [chat EXCEPT !.mon = IF chat.status_running THEN "test_active" ELSE "done",
                            !.mon_pc = pc]
    /\ UNCHANGED mgrvars

\* ... and then self.session_active
MonitorReadActive ==
    /\ chat.mon = "test_active"
    /\ chat' = [chat EXCEPT !.mon = IF chat.session_active THEN "sleep" ELSE "done",
                            !.mon_pc = pc]
    /\ UNCHANGED mgrvars

\* a monitor that records a status transition after each sleep
MonitorWakeUpdates ==
    /\ chat.mon = "sleep"
    /\ chat' = [chat EXCEPT !.mon = "test_running", !.mon_pc = pc]
    /\ Become(_update_status(Self, "MONITOR", Detail("", "", <<>>)))
    /\ UNCHANGED <<pc, cmd, locals, calls, ret, pre, ncmds, limit>>

\* time.sleep(5) returns: the loop body is over
MonitorWake ==
    /\ chat.mon = "sleep"
    /\ chat' = [chat EXCEPT !.mon = "test_running", !.mon_pc = pc]
    /\ UNCHANGED mgrvars

\* the user types /emergency, whatever the session is doing; the line waits
\* in the terminal until input() is called
TypeEmergency ==
    /\ chat.sess = "loop" /\ chat.session_active
    /\ chat.typed = "" /\ ncmds < limit
    /\ chat' = [chat EXCEPT !.typed = "emergency", !.typed_pc = pc]
    /\ UNCHANGED mgrvars

\* _emergency_stop, lines 461-467, up to the call of emergency_stop
emergency_direct(c, m, n) ==
    IF is_connected(m)
    THEN [c EXCEPT !.typed = "", !.sess = "emergency_call", !.at = n]
    ELSE [c EXCEPT !.typed = ""]

\* the loop is back at _get_user_input and input() returns the typed line:
\* _handle_special_commands calls _emergency_stop
ReadEmergency ==
    /\ chat.sess = "loop" /\ pc = "idle" /\ chat.session_active
    /\ chat.typed = "emergency"
    /\ chat' = emergency_direct(chat, Self, ncmds)
    /\ UNCHANGED mgrvars

\* emergency_stop has returned to _emergency_stop: back to the loop
EmergencyHandled ==
    /\ chat.sess = "emergency_call" /\ pc = "idle" /\ ncmds > chat.at
    /\ chat' = [chat EXCEPT !.sess = "loop"]
    /\ UNCHANGED mgrvars

Answers == {"yes", "no", "interrupt"}

NextChat ==
    \/ Start
    \/ Quit
    \/ LoopExit
    \/ Interrupt
    \/ \E answer \in Answers : HandleExit(answer)
    \/ ExitDisconnected
    \/ Cleanup
    \/ CleanupDisconnected
    \/ MonitorReadRunning
    \/ MonitorReadActive
    \/ MonitorWake
    \/ \E cs \in ConnectionStrings : ConnectDrone(cs)
    \/ \E o \in Outcomes, ol \in ReadOutcomes, ob \in ReadOutcomes : ConnectToDrone(o, ol, ob)
    \/ DisconnectDrone
    \/ \E o \in VoidOutcomes : Disconnect(o)
    \/ \E a \in Altitudes : Takeoff(a)
    \/ \E o \in Outcomes : ArmAndTakeoff(o)

SpecChat == InitChat /\ [][NextChat]_vars

\* The session loop with typed emergency requests and missions
SessionMissions == {<<wA>>, <<wA, wB>>}

NextSession ==
    \/ Start
    \/ TypeEmergency
    \/ ReadEmergency
    \/ EmergencyHandled
    \/ \E cs \in ConnectionStrings : ConnectDrone(cs)
    \/ ConnectToDrone("true", "value", "value")
    \/ \E w \in SessionMissions : ExecuteMission(w)
    \/ \E o \in Outcomes : UploadMission(o)
    \/ \E o \in Outcomes : StartMission(o)
    \/ Waypoint
    \/ MissionComplete
    \/ EmergencyStop
    \/ \E o \in Outcomes : ReturnToLaunch(o)
    \/ \E o \in Outcomes : LandLink(o)

SpecSession == InitChat /\ [][NextSession]_vars

----------------------------------------------------------------------------
(* TerminalDroneChat: chat.sess is "t_new" before start() is called,
   "t_loop" in its while loop, "t_goodbye" in _show_goodbye, "t_ended" when
   start() has returned, "t_raised" when an exception has left start(). *)

\* TerminalDroneChat.__init__
NewTerminal == [NoChat EXCEPT !.sess = "t_new"]

InitTerminal == Fresh /\ limit = MaxCmds /\ chat = NewTerminal

TerminalStart ==
    /\ chat.sess = "t_new"
    /\ chat' = [chat EXCEPT !.sess = "t_loop"]
    /\ UNCHANGED mgrvars

\* /quit, or prompt() interrupted or at its end: _handle_command returns
\* False and the loop breaks; start() returns
TerminalQuit ==
    /\ chat.sess = "t_loop" /\ pc = "idle"
    /\ chat' = [chat EXCEPT !.sess = "t_ended"]
    /\ UNCHANGED mgrvars

\* KeyboardInterrupt or EOFError in the loop body, between manager calls
TerminalInterrupt ==
    /\ chat.sess = "t_loop" /\ pc = "idle"
    /\ chat' = [chat EXCEPT !.sess = "t_goodbye"]
    /\ UNCHANGED mgrvars

\* _show_goodbye: when connected it calls self.drone_tools.disconnect(), a
\* method DroneToolsManager does not have: AttributeError leaves start()
show_goodbye(c, m) ==
    IF is_connected(m) THEN [c EXCEPT !.sess = "t_raised"] ELSE [c EXCEPT !.sess = "t_ended"]

TerminalGoodbye ==
    /\ chat.sess = "t_goodbye"
    /\ chat' = show_goodbye(chat, Self)
    /\ UNCHANGED mgrvars

NextTerminal ==
    \/ TerminalStart
    \/ TerminalQuit
    \/ TerminalInterrupt
    \/ TerminalGoodbye
    \/ \E cs \in ConnectionStrings : ConnectDrone(cs)
    \/ \E o \in Outcomes, ol \in ReadOutcomes, ob \in ReadOutcomes : ConnectToDrone(o, ol, ob)
    \/ DisconnectDrone
    \/ \E o \in VoidOutcomes : Disconnect(o)
    \/ \E a \in Altitudes : Takeoff(a)
    \/ \E o \in Outcomes : ArmAndTakeoff(o)

SpecTerminal == InitTerminal /\ [][NextTerminal]_vars

\* The monitor is a thread of its own: the interpreter keeps scheduling it
\* and time.sleep(5) returns
SpecChatFair ==
    /\ InitChat /\ [][NextChat]_vars
    /\ WF_vars(MonitorReadRunning) /\ WF_vars(MonitorReadActive) /\ WF_vars(MonitorWake)

----------------------------------------------------------------------------
(* Properties *)

Returned(name) == pc = "idle" /\ cmd = name

FlightCmds == {"takeoff", "land", "return_home", "fly_to", "execute_mission"}

GuardedCmds == FlightCmds \cup {"get_telemetry", "emergency_stop"}

CalledPrims == {calls[k].prim : k \in DOMAIN calls}

\* emergency_stop has returned after passing its connection check
EmergencyDone == Returned("emergency_stop") /\ pre.connected

RtlFailed == Len(calls) >= 1 /\ calls[1].prim = "return_to_launch" /\ calls[1].outcome # "true"
LandFailed == Len(calls) >= 2 /\ calls[2].prim = "land" /\ calls[2].outcome # "true"

\* C1: a flight command (takeoff, land, return_home, fly_to, execute_mission)
\* invoked while the manager is not connected has returned False without
\* calling any controller primitive, whatever commands ran before it.
C1_DisconnectedFlightCommandFails ==
    (cmd \in FlightCmds /\ ~pre.connected) =>
        (pc = "idle" /\ ret = Ret("False") /\ calls = <<>>)

\* a takeoff rejected after an earlier session was connected and torn down
C1_Witness ==
    /\ Returned("takeoff") /\ ~pre.connected /\ ret = Ret("False")
    /\ \E k \in DOMAIN log_entries : log_entries[k].status = "CONNECTED"

\* C2: a command rejected by the connection guard (the flight commands,
\* get_telemetry, emergency_stop while not connected) leaves connected,
\* mission_in_progress, status, phase and the log as they were at invocation.
C2_RejectedCommandChangesNothing ==
    (cmd \in GuardedCmds /\ ~pre.connected) => (pc = "idle" /\ Self = pre)

\* an emergency_stop rejected while the status is the ERROR of a failed connect
C2_Witness ==
    /\ Returned("emergency_stop") /\ ~pre.connected
    /\ status = "ERROR" /\ Len(log_entries) = 2

\* C3 as stated: whenever emergency_stop invoked while connected has returned,
\* the status is RETURNING or LANDED, for every outcome of return-to-launch
\* and land.
C3_EmergencyEndsReturningOrLanded ==
    EmergencyDone => status \in {"RETURNING", "LANDED"}

\* C3 amended: after emergency_stop invoked while connected, the status is
\* RETURNING when return-to-launch succeeded, LANDED when it failed and land
\* succeeded, and ERROR when both failed.
C3_EmergencyStatusByOutcome ==
    EmergencyDone =>
        /\ ~RtlFailed => status = "RETURNING"
        /\ (RtlFailed /\ ~LandFailed) => status = "LANDED"
        /\ (RtlFailed /\ LandFailed) => status = "ERROR"

\* return-to-launch raised and the fallback landing succeeded
C3_Witness ==
    /\ EmergencyDone /\ Len(calls) = 2
    /\ calls[1].outcome = "raise" /\ calls[2].outcome = "true"
    /\ status = "LANDED"

\* C4: whenever emergency_stop invoked while connected has returned,
\* mission_in_progress is false, whether return-to-launch and land succeeded,
\* failed or raised.
C4_EmergencyClearsInProgress == EmergencyDone => ~mission_in_progress

\* the flag was set at invocation and both attempts failed
C4_Witness ==
    /\ EmergencyDone /\ pre.mission_in_progress
    /\ RtlFailed /\ LandFailed /\ ~mission_in_progress

\* C5: during emergency_stop the first controller call is return-to-launch;
\* land is called only as the second call and only after return-to-launch
\* failed, and by the time emergency_stop returns land has been called if
\* and only if return-to-launch failed.
C5_LandOnlyAfterFailedRtl ==
    (cmd = "emergency_stop") =>
        /\ \A k \in DOMAIN calls :
              /\ k = 1 => calls[k].prim = "return_to_launch"
              /\ k > 1 => (k = 2 /\ calls[k].prim = "land" /\ RtlFailed)
        /\ EmergencyDone =>
              /\ Len(calls) >= 1
              /\ ("land" \in CalledPrims) <=> RtlFailed

\* return-to-launch returned False and land was then called (and raised)
C5_Witness ==
    /\ EmergencyDone /\ Len(calls) = 2
    /\ calls[1] = Call("return_to_launch", "false")
    /\ calls[2] = Call("land", "raise")

\* C6 as stated: when both attempts of emergency_stop failed, the status is
\* ERROR and the value returned differs from None, the value emergency_stop
\* returns when an attempt succeeded.
C6_BothFailedIsReported ==
    (EmergencyDone /\ RtlFailed /\ LandFailed) =>
        (status = "ERROR" /\ ret # Ret("None"))

\* C7 as stated: execute_mission invoked while mission_in_progress is true has
\* returned False without an upload or start call and with
\* mission_in_progress and the status as they were.
C7_SecondMissionRejected ==
    (cmd = "execute_mission" /\ pre.connected /\ pre.mission_in_progress) =>
        /\ pc = "idle" /\ ret = Ret("False")
        /\ CalledPrims \cap {"upload_mission", "execute_mission"} = {}
        /\ mission_in_progress = pre.mission_in_progress
        /\ status = pre.status

\* C8 as stated: in every state (between commands and after each status
\* transition inside one) mission_in_progress is true exactly when the
\* status is MISSION or EXECUTING.
C8_InProgressIffMissionPhase ==
    mission_in_progress <=> status \in {"MISSION", "EXECUTING"}

IsWaypointEntry(e, k, waypoints) ==
    /\ e.status = "EXECUTING"
    /\ Len(e.phase.nums) = 4
    /\ e.phase.nums[1] = k
    /\ e.phase.nums[2] = Len(waypoints)
    /\ e.phase.nums[3] = Fmt4(waypoints[k].lat)
    /\ e.phase.nums[4] = Fmt4(waypoints[k].lon)

\* C9 as stated: when execute_mission has returned True the status is
\* MISSION COMPLETE, the newest log entry is the completion entry, the one
\* before it is the last waypoint's, and mission_in_progress is false.
C9_SuccessfulMissionIsOver ==
    (Returned("execute_mission") /\ ret = Ret("True")) =>
        LET n == Len(log_entries) IN
        /\ status = "MISSION COMPLETE"
        /\ n >= 2
        /\ log_entries[n].status = "MISSION COMPLETE"
        /\ IsWaypointEntry(log_entries[n - 1], Len(locals.waypoints), locals.waypoints)
        /\ ~mission_in_progress

\* upload and start succeeded for a list whose every waypoint has lat and lon
MissionStarted ==
    /\ cmd = "execute_mission"
    /\ Len(calls) = 2 /\ calls[1].outcome = "true" /\ calls[2].outcome = "true"
    /\ \A k \in DOMAIN locals.waypoints : WellFormed(locals.waypoints[k])

\* C10: once upload and start have succeeded for waypoints w1..wN, the log
\* ends with the start entry followed by one entry per waypoint handled so
\* far, the k-th referencing wk, in list order with nothing in between;
\* when execute_mission returns these are w1..wN followed only by the
\* completion entry.
C10_WaypointEntriesInOrder ==
    MissionStarted =>
        LET n == Len(locals.waypoints)
            done == IF pc = "idle" THEN n ELSE locals.i - 1
            tail == IF pc = "idle" THEN 1 ELSE 0
            base == Len(log_entries) - tail - done
        IN  /\ pc = "idle" => (ret = Ret("True") /\ log_entries[Len(log_entries)].status = "MISSION COMPLETE")
            /\ base >= 1
            /\ log_entries[base].status = "EXECUTING"
            /\ log_entries[base].phase.nums = <<>>
            /\ \A k \in 1..done : IsWaypointEntry(log_entries[base + k], k, locals.waypoints)

\* a three-waypoint mission that visits wA twice has returned
C10_Witness ==
    /\ MissionStarted /\ pc = "idle"
    /\ locals.waypoints = <<wA, wB, wA>>
    /\ ret = Ret("True")

\* the entries cmd has appended to the log since it was invoked
Appended == SubSeq(log_entries, Len(pre.log_entries) + 1, Len(log_entries))

IsSomeWaypointEntry(e) == e.status = "EXECUTING" /\ Len(e.phase.nums) = 4

\* C11: within execute_mission the first controller call is the upload and
\* the start call comes second and only after the upload succeeded; when
\* either of them failed, execute_mission has returned False and has
\* appended no waypoint entry.
C11_UploadBeforeStart ==
    (cmd = "execute_mission") =>
        /\ Len(calls) <= 2
        /\ \A k \in DOMAIN calls :
              /\ k = 1 => calls[k].prim = "upload_mission"
              /\ k = 2 => (calls[k].prim = "execute_mission" /\ calls[1].outcome = "true")
        /\ (\E k \in DOMAIN calls : calls[k].outcome # "true") =>
              /\ pc = "idle" /\ ret = Ret("False")
              /\ \A j \in DOMAIN Appended : ~IsSomeWaypointEntry(Appended[j])

\* the upload succeeded and the start call raised
C11_Witness ==
    /\ Returned("execute_mission")
    /\ calls = <<Call("upload_mission", "true"), Call("execute_mission", "raise")>>
    /\ ret = Ret("False")

\* C12: execute_mission with an empty waypoint list has returned False
\* without any controller call and with status, mission_in_progress and
\* connected as they were at invocation.
C12_EmptyMissionRejected ==
    (cmd = "execute_mission" /\ locals.waypoints = <<>>) =>
        /\ pc = "idle" /\ ret = Ret("False") /\ calls = <<>>
        /\ status = pre.status
        /\ mission_in_progress = pre.mission_in_progress
        /\ connected = pre.connected

\* an empty mission rejected on a connected, airborne manager
C12_Witness ==
    /\ Returned("execute_mission") /\ locals.waypoints = <<>>
    /\ pre.connected /\ status = "AIRBORNE" /\ mission_in_progress

\* execute_mission got past the connection guard and the empty-list check
MissionAccepted ==
    cmd = "execute_mission" /\ pre.connected /\ locals.waypoints # <<>>

\* C13: whenever execute_mission got past its preconditions and has
\* returned False (upload failed, start failed, or an error in the waypoint
\* loop), mission_in_progress is false, the status is ERROR and connected
\* is still true.
C13_FailedMissionStaysConnected ==
    (MissionAccepted /\ pc = "idle" /\ ret = Ret("False")) =>
        (~mission_in_progress /\ status = "ERROR" /\ connected)

\* the loop failed at the second of three waypoints, after a takeoff
C13_Witness ==
    /\ MissionAccepted /\ pc = "idle" /\ ret = Ret("False")
    /\ Len(calls) = 2 /\ calls[2].outcome = "true"
    /\ locals.waypoints = <<wA, wNoLat, wB>>
    /\ pre.mission_in_progress

\* C14 as stated: after disconnect_drone invoked on a connected manager has
\* returned, connected is false and the status is STANDBY, whatever the
\* controller's disconnect did, and the method returned normally.
C14_DisconnectAlwaysDisconnects ==
    (Returned("disconnect_drone") /\ pre.connected) =>
        (~connected /\ status = "STANDBY" /\ ret = Ret("None"))

\* C15 as stated: after a disconnect_drone invoked while mission_in_progress
\* was true has returned, mission_in_progress is false and the status is not
\* a mid-flight mission status, whatever the controller's disconnect did.
C15_DisconnectClearsInProgress ==
    (Returned("disconnect_drone") /\ pre.mission_in_progress) =>
        (~mission_in_progress /\ status \notin {"MISSION", "EXECUTING"})

\* C16 as stated: whenever connect_drone has returned False, connected is
\* false, whatever it was before the call.
C16_FailedConnectIsDisconnected ==
    (Returned("connect_drone") /\ ret = Ret("False")) => ~connected

\* C17: while connect_drone waits in the controller's connect, no controller
\* call has been made yet and the newest log entry is CONNECTING; when that
\* call has succeeded, connected is true, the status is CONNECTED, the two
\* newest log entries are CONNECTING then CONNECTED, and True is returned.
C17_ConnectingThenConnected ==
    (cmd = "connect_drone") =>
        LET n == Len(log_entries) IN
        /\ pc = "connect_to_drone" =>
              /\ calls = <<>>
              /\ n >= 1 /\ log_entries[n].status = "CONNECTING"
        /\ (pc = "idle" /\ calls[1].outcome = "true") =>
              /\ calls[1].prim = "connect_to_drone"
              /\ connected /\ status = "CONNECTED" /\ ret = Ret("True")
              /\ n >= 2
              /\ log_entries[n - 1].status = "CONNECTING"
              /\ log_entries[n].status = "CONNECTED"

\* a successful reconnect after an earlier connect failed
C17_Witness ==
    /\ Returned("connect_drone") /\ calls[1].outcome = "true"
    /\ ~pre.connected /\ pre.status = "ERROR" /\ connected

PublicMethods == {"connect_drone", "disconnect_drone", "takeoff", "land",
                  "return_home", "fly_to", "execute_mission", "emergency_stop",
                  "get_status", "get_telemetry", "get_location", "get_battery"}

\* C18: no public method is ever left by an exception: whatever the
\* controller calls did, a method that is no longer executing has returned
\* True, False, None or a dictionary.
C18_NoExceptionEscapes ==
    (cmd \in PublicMethods) =>
        /\ ret # Raised
        /\ pc = "idle" => ret.value \in {"True", "False", "None", "dict"}

\* get_status returned its dictionary although the vehicle access raised
C18_Witness ==
    /\ Returned("get_status")
    /\ \E k \in DOMAIN calls : calls[k] = Call("vehicle", "raise")
    /\ "telemetry_error" \in ret.keys

LinkCommands == {"connect_drone", "takeoff", "land", "return_home", "fly_to",
                 "execute_mission"}

CommandPrims == {"connect_to_drone", "arm_and_takeoff", "land", "return_to_launch",
                 "goto_location", "upload_mission", "execute_mission"}

\* a command primitive called by cmd returned False or raised
CommandCallFailed ==
    \E k \in DOMAIN calls :
        calls[k].prim \in CommandPrims /\ calls[k].outcome \in {"false", "raise"}

\* C19: whenever connect_drone, takeoff, land, return_home, fly_to or
\* execute_mission has returned after its controller call returned False or
\* raised, it returned False, the status is ERROR and the newest log entry
\* is an ERROR entry.
C19_LinkFailureIsError ==
    (cmd \in LinkCommands /\ pc = "idle" /\ CommandCallFailed) =>
        /\ ret = Ret("False")
        /\ status = "ERROR"
        /\ log_entries # <<>>
        /\ log_entries[Len(log_entries)].status = "ERROR"

\* fly_to whose goto call returned False
C19_Witness ==
    /\ Returned("fly_to") /\ calls = <<Call("goto_location", "false")>>
    /\ status = "ERROR"

\* C20: one invocation of connect_drone, takeoff, land, return_home, fly_to
\* or execute_mission never calls the same command primitive twice,
\* whatever the outcomes of its calls.
C20_NoRetry ==
    (cmd \in LinkCommands) =>
        \A j, k \in DOMAIN calls :
            (calls[j].prim \in CommandPrims /\ calls[j].prim = calls[k].prim) => j = k

\* a takeoff whose only controller call raised has returned
C20_Witness ==
    /\ Returned("takeoff") /\ calls = <<Call("arm_and_takeoff", "raise")>>
    /\ ret = Ret("False")

\* cmd was invoked while connected, made the one controller call prim, that
\* call returned True, and cmd has returned
SucceededWith(name, prim) ==
    Returned(name) /\ pre.connected /\ calls = <<Call(prim, "true")>>

\* C21: on return from a command invoked while connected whose controller
\* call succeeded, the status is AIRBORNE for takeoff, LANDED with
\* mission_in_progress false for land, RETURNING for return_home and
\* NAVIGATING for fly_to.
C21_StatusOnSuccess ==
    /\ SucceededWith("takeoff", "arm_and_takeoff") => status = "AIRBORNE"
    /\ SucceededWith("land", "land") => (status = "LANDED" /\ ~mission_in_progress)
    /\ SucceededWith("return_home", "return_to_launch") => status = "RETURNING"
    /\ SucceededWith("fly_to", "goto_location") => status = "NAVIGATING"

\* a landing that succeeded after a takeoff had set mission_in_progress
C21_Witness ==
    /\ SucceededWith("land", "land") /\ pre.mission_in_progress
    /\ status = "LANDED" /\ ret = Ret("True")

Min(a, b) == IF a < b THEN a ELSE b

\* the last n elements of seq
LastN(seq, n) == SubSeq(seq, Len(seq) - n + 1, Len(seq))

\* C22: the log never holds more than 50 entries; it always is the newest
\* entries ever appended, in append order, so that after 60 status
\* transitions it holds exactly the 11th to the 60th.
C22_LogIsNewestFifty ==
    /\ Len(log_entries) <= 50
    /\ log_entries = LastN(history, Min(LogCap, Len(history)))
    /\ Len(history) = 60 => log_entries = SubSeq(history, 11, 60)

\* sixty transitions have happened and the 10th entry, which differs from the
\* 11th, is gone
C22_Witness ==
    /\ Len(history) = 60 /\ Len(log_entries) = 50
    /\ log_entries[1] = history[11] /\ history[10] # history[11]

\* C23: get_status returns the current connected flag, mission_in_progress,
\* status and phase together with the last min(5, length) log entries, oldest
\* first; location and battery are in the result exactly when connected, and
\* a disconnected manager makes no controller call.
C23_StatusSnapshot ==
    Returned("get_status") =>
        /\ ret.data.connected = connected
        /\ ret.data.mission_in_progress = mission_in_progress
        /\ ret.data.status = status
        /\ ret.data.phase = phase
        /\ ret.data.log_entries = LastN(log_entries, Min(5, Len(log_entries)))
        /\ ({"location", "battery"} \subseteq ret.keys) <=> connected
        /\ ({"location", "battery"} \cap ret.keys # {}) <=> connected
        /\ ~connected => calls = <<>>

\* get_status on a connected manager whose log is longer than five entries
C23_Witness ==
    /\ Returned("get_status") /\ connected /\ Len(log_entries) > 5
    /\ ret.data.log_entries = SubSeq(log_entries, Len(log_entries) - 4, Len(log_entries))
    /\ ret.data.log_entries[1] # log_entries[1]
    /\ {"location", "battery"} \subseteq ret.keys

\* C24: while connected, get_telemetry returns a snapshot with location and
\* battery even when an extended accessor of the vehicle fails.
C24_TelemetryDegradesGracefully ==
    (Returned("get_telemetry") /\ pre.connected) =>
        {"location", "battery"} \subseteq ret.keys

\* the documented status labels; the code writes TAKING OFF and MISSION
\* COMPLETE with a space
Vocabulary ==
    {"STANDBY", "CONNECTING", "CONNECTED", "TAKING OFF", "AIRBORNE", "NAVIGATING",
     "MISSION", "MISSION COMPLETE", "RETURNING", "LANDING", "LANDED", "EMERGENCY",
     "ERROR", "DISCONNECTING"}

\* C25: in every reachable state the status is one of the documented labels.
C25_StatusInVocabulary == status \in Vocabulary

ReadCmds == {"get_status", "get_telemetry", "get_location", "get_battery"}

\* C26: the status starts as STANDBY; a step that takes the status out of
\* ERROR belongs to a command that is not a read operation and that passed
\* its connection check, and no step of a read operation or of a rejected
\* command changes the status at all.
C26_ErrorPersists ==
    /\ status = "STANDBY"
    /\ [][/\ (status = "ERROR" /\ status' # "ERROR") =>
                (cmd' \notin ReadCmds /\ (cmd' \in GuardedCmds => pre'.connected))
          /\ (cmd' \in ReadCmds \/ (cmd' \in GuardedCmds /\ ~pre'.connected)) =>
                status' = status]_vars

\* get_location has returned on a manager whose status was and still is ERROR
C26_Witness ==
    /\ Returned("get_location") /\ pre.status = "ERROR" /\ status = "ERROR"

\* the statuses of all transitions so far
Statuses(log) == [k \in DOMAIN log |-> log[k].status]

\* exactly connect_drone, takeoff and then a mission of two waypoints have
\* run to their successful end
ScenarioDone ==
    Statuses(history) = <<"CONNECTING", "CONNECTED", "TAKING OFF", "AIRBORNE", "MISSION",
                          "EXECUTING", "EXECUTING", "EXECUTING", "MISSION COMPLETE">>

\* C27: on a link whose calls all succeed, connect_drone succeeds; a takeoff
\* after it succeeds with status AIRBORNE; a two-waypoint mission issued when
\* AIRBORNE succeeds with status MISSION COMPLETE; and get_status after the
\* three returns a recent log ending with one entry per waypoint followed by
\* the completion entry.
C27_Scenario ==
    /\ Returned("connect_drone") => (ret = Ret("True") /\ connected)
    /\ (Returned("takeoff") /\ pre.connected) => (ret = Ret("True") /\ status = "AIRBORNE")
    /\ (Returned("execute_mission") /\ pre.status = "AIRBORNE"
            /\ locals.waypoints = TwoWaypoints) =>
          (ret = Ret("True") /\ status = "MISSION COMPLETE")
    /\ (Returned("get_status") /\ ScenarioDone) =>
          LET recent == ret.data.log_entries
              n == Len(recent)
          IN  /\ ret.data.status = "MISSION COMPLETE"
              /\ n >= 3
              /\ IsWaypointEntry(recent[n - 2], 1, TwoWaypoints)
              /\ IsWaypointEntry(recent[n - 1], 2, TwoWaypoints)
              /\ recent[n].status = "MISSION COMPLETE"

\* the fourth command, get_status, has returned after the three succeeded
C27_Witness ==
    /\ Returned("get_status") /\ ScenarioDone /\ ncmds = 4
    /\ Len(ret.data.log_entries) = 5
    /\ ret.data.log_entries[5].status = "MISSION COMPLETE"

\* C28: emergency_stop invoked while connected and with status LANDED makes
\* no controller call and leaves the status LANDED.
C28_EmergencyWhenLandedIsNoOp ==
    (cmd = "emergency_stop" /\ pre.connected /\ pre.status = "LANDED") =>
        (calls = <<>> /\ status = "LANDED")

\* a step of the monitor thread
MonitorStepped == chat.mon # "unstarted" /\ chat'.mon # chat.mon

\* C29: no step of the monitor thread, wherever the session loop and the
\* manager's command are at that moment, changes connected,
\* mission_in_progress, status, phase or the log, or calls the controller.
C29_MonitorTouchesNothing ==
    [][MonitorStepped => (UNCHANGED <<connected, mission_in_progress, status, phase,
                                      log_entries>> /\ calls' = calls)]_vars

\* the monitor stepped while a takeoff was waiting in the controller
C29_Witness ==
    /\ chat.mon = "sleep" /\ chat.mon_pc = "arm_and_takeoff"
    /\ pc = "arm_and_takeoff" /\ status = "TAKING OFF"

\* C30: once start() has finished, whichever way the session loop was left,
\* the monitor loop eventually returns and never iterates again.
C30_MonitorStops == (chat.sess = "ended") ~> [](chat.mon = "done")

\* start() has finished with session_active still set, and the monitor has
\* returned
C30_Witness ==
    /\ chat.sess = "ended" /\ chat.session_active /\ ~chat.status_running
    /\ chat.mon = "done"

\* C31: in the chat session a manager command starts only when no other is
\* executing, so an emergency stop typed while execute_mission is inside a
\* controller call or its waypoint loop starts after execute_mission has
\* returned, and none of its effects shows while a mission executes.
C31_CommandsSerialized ==
    [][/\ (ncmds' # ncmds \/ cmd' # cmd) => pc = "idle"
       /\ (cmd' = "execute_mission" /\ pc' # "idle") => status' # "EMERGENCY"]_vars

\* an emergency stop typed while the mission was in its waypoint loop is
\* executing, after the mission has returned
C31_Witness ==
    /\ cmd = "emergency_stop" /\ chat.typed_pc = "waypoint"
    /\ pre.status = "MISSION COMPLETE"
    /\ status = "RETURNING"

\* C32: get_location, get_battery and get_telemetry on a disconnected
\* manager return the marker 'Not connected to drone' and call nothing; on a
\* connected one, get_location and get_battery turn an exception of their
\* accessor into a marker carrying its message.
C32_ReadsReturnErrorMarkers ==
    /\ (pc = "idle" /\ cmd \in {"get_location", "get_battery", "get_telemetry"}
            /\ ~pre.connected) =>
          (ret = ErrorDict("Not connected to drone") /\ calls = <<>>)
    /\ (Returned("get_location") /\ pre.connected
            /\ calls = <<Call("get_current_location", "raise")>>) =>
          ret = ErrorDict(ErrMsg)
    /\ (Returned("get_battery") /\ pre.connected
            /\ calls = <<Call("get_battery_status", "raise")>>) =>
          ret = ErrorDict(ErrMsg)

\* get_battery has returned the marker after its accessor raised
C32_Witness ==
    /\ Returned("get_battery") /\ pre.connected
    /\ calls = <<Call("get_battery_status", "raise")>>
    /\ ret = ErrorDict(ErrMsg)

\* C33: when start() of a front end is over, the manager is not connected
\* and no exception has left start().
C33_SessionEndDisconnects ==
    /\ chat.sess \in {"ended", "t_ended"} => ~connected
    /\ chat.sess # "t_raised"

\* C34: in every state, also while a command waits in a controller call, a
\* mission marked in progress implies that the manager is connected.
C34_InProgressImpliesConnected == mission_in_progress => connected

\* a disconnect on a manager with a mission in progress has cleared both
C34_Witness ==
    /\ Returned("disconnect_drone") /\ pre.connected /\ pre.mission_in_progress
    /\ ~connected /\ ~mission_in_progress

FlightStatuses ==
    {"TAKING OFF", "AIRBORNE", "NAVIGATING", "MISSION", "EXECUTING", "MISSION COMPLETE",
     "RETURNING", "LANDING", "LANDED", "EMERGENCY"}

\* C35: a flight status implies that the manager is connected, and a manager
\* that is not connected and executes no command has status STANDBY or ERROR.
C35_StatusMatchesConnection ==
    /\ status \in FlightStatuses => connected
    /\ (pc = "idle" /\ ~connected) => status \in {"STANDBY", "ERROR"}

\* log a is log b with entries appended at its end
Extends(a, b) == Len(a) >= Len(b) /\ SubSeq(a, 1, Len(b)) = b

C37_EmergencyEntryFirst ==
    EmergencyDone =>
        /\ status # "EMERGENCY"
        /\ status \in {"RETURNING", "LANDED", "ERROR"}
        /\ Len(Appended) >= 3
        /\ Appended[1].status = "EMERGENCY"
        /\ Appended[2].status = "RETURNING"
        /\ \A k \in 2..Len(Appended) : Appended[k].status # "EMERGENCY"
        /\ \A k \in 1..Len(Appended) :
              Appended[k].status \in {"LANDING", "LANDED"} => k >= 4

\* the emergency stop logged EMERGENCY, the failed return and the landing
C37_Witness ==
    /\ EmergencyDone /\ Len(Appended) = 5
    /\ Appended[1].status = "EMERGENCY" /\ Appended[3].status = "ERROR"
    /\ Appended[4].status = "LANDING" /\ status = "LANDED"

\* C38: takeoff has set mission_in_progress when it calls the controller and
\* leaves it set exactly when it succeeds; the flag then stays set across
\* fly_to, return_home, a successful execute_mission and a failed land, and
\* a step clears it only in a successful land, in disconnect_drone, in
\* emergency_stop, or in a failed takeoff or execute_mission.
C38_InProgressLifetime ==
    /\ []((cmd = "takeoff" /\ pc = "arm_and_takeoff") => mission_in_progress)
    /\ []((Returned("takeoff") /\ pre.connected) =>
              (mission_in_progress <=> ret = Ret("True")))
    /\ []((pc = "idle" /\ pre.mission_in_progress /\ pre.connected
             /\ \/ cmd \in {"fly_to", "return_home"}
                \/ cmd = "execute_mission" /\ ret = Ret("True")
                \/ cmd = "land" /\ ret = Ret("False")) => mission_in_progress)
    /\ [][(mission_in_progress /\ ~mission_in_progress') =>
             \/ cmd' = "land" /\ ret' = Ret("True")
             \/ cmd' = "disconnect_drone"
             \/ cmd' = "emergency_stop"
             \/ cmd' \in {"takeoff", "execute_mission"} /\ ret' = Ret("False")]_vars

\* a land that failed after a takeoff has left the flag set
C38_Witness ==
    /\ Returned("land") /\ ret = Ret("False") /\ pre.connected
    /\ pre.mission_in_progress /\ pre.status = "AIRBORNE" /\ mission_in_progress

AllReads == ReadCmds \cup {"is_connected"}

\* C39: when a read operation has returned, whatever the controller did,
\* every field of the manager is what it was when the read was invoked, and
\* the command invoked after any number of reads finds the fields that the
\* first of these reads found.
C39_ReadsChangeNothing ==
    /\ []((pc = "idle" /\ cmd \in AllReads) => Self = pre)
    /\ [][(cmd \in AllReads /\ ncmds' > ncmds) => pre' = pre]_vars

\* get_telemetry failed on a connected manager whose status is not ERROR,
\* after two earlier commands
C39_Witness ==
    /\ Returned("get_telemetry") /\ pre.connected /\ ret = ErrorDict(ErrMsg)
    /\ status = "AIRBORNE" /\ Self = pre /\ ncmds = 3

====
